---------------------------- MODULE Spec2Model ----------------------------
(***************************************************************************)
(* Model of update_osm_cameras.py: the country selector, the retrying      *)
(* Overpass fetch (fetch_bbox), the record normaliser, the deduplication   *)
(* and the per-country file write of main().                               *)
(*                                                                         *)
(* Strings the code inspects character by character (the COUNTRIES         *)
(* variable) are sequences of one-character strings; strings it only       *)
(* builds or compares are TLA+ strings.  Optional values (a key a JSON     *)
(* object may lack, Python's None) are records [some, v].                  *)
(*                                                                         *)
(* The service's parsed answers are JSON objects whose "elements", when    *)
(* present, is a list of objects.  A body that does not parse raises       *)
(* requests.exceptions.JSONDecodeError, a RequestException (requests 2.27  *)
(* and later).  The pauses (time.sleep) change no state; the backoff       *)
(* sleeps of fetch_bbox are logged.  The query text (build_overpass_query) *)
(* has no effect on the control flow and is left out.                      *)
(***************************************************************************)
EXTENDS Integers, Sequences, FiniteSets, TLC

(***************************************************************************)
(* Configuration (lines 7-11) and fetch_bbox's defaults (line 58).         *)
(***************************************************************************)
CONF_FIXED == 80
CONF_MOBILE_POSSIBLE == 60
ATTEMPTS == 8
INITIAL_BACKOFF == 5
BACKOFF_CAP == 300
OUTPUT_DIR == "docs"

(***************************************************************************)
(* Bounds of the model.                                                    *)
(*   NumCountries: how many entries of COUNTRY_BBOXES, from the first,     *)
(*                 the model keeps.                                        *)
(*   MaxBoxes:     how many bounding boxes, from the first, it keeps of an  *)
(*                 entry.                                                  *)
(*   MaxPieces:    how many pieces a generated COUNTRIES value is made of. *)
(***************************************************************************)
NumCountries == 2
MaxBoxes == 2
MaxPieces == 3

Min(a, b) == IF a < b THEN a ELSE b

(***************************************************************************)
(* COUNTRY_BBOXES, in the dict's insertion order.  A bounding box is       *)
(* (lat_min, lon_min, lat_max, lon_max) in hundredths of a degree.         *)
(***************************************************************************)
AllCountryBboxes ==
  << [cc |-> "uk", bboxes |-> << <<4990, -860, 5500, -200>>,
                                 <<5500, -860, 6090, -200>>,
                                 <<4990, -200, 5500, 180>>,
                                 <<5500, -200, 6090, 180>> >>],
     [cc |-> "fr", bboxes |-> << <<4130, -510, 5110, 960>> >>],
     [cc |-> "de", bboxes |-> << <<4730, 590, 5510, 1500>> >>],
     [cc |-> "es", bboxes |-> << <<3600, -940, 4380, 430>> >>],
     [cc |-> "it", bboxes |-> << <<3660, 660, 4710, 1850>> >>],
     [cc |-> "nl", bboxes |-> << <<5070, 340, 5360, 720>> >>],
     [cc |-> "be", bboxes |-> << <<4950, 250, 5150, 640>> >>],
     [cc |-> "ie", bboxes |-> << <<5140, -1050, 5540, -530>> >>],
     [cc |-> "pt", bboxes |-> << <<3690, -950, 4210, -620>> >>],
     [cc |-> "se", bboxes |-> << <<5530, 1110, 6910, 2420>> >>],
     [cc |-> "no", bboxes |-> << <<5790, 470, 7120, 3110>> >>],
     [cc |-> "dk", bboxes |-> << <<5450, 770, 5790, 1270>> >>],
     [cc |-> "ch", bboxes |-> << <<4580, 596, 4780, 1050>> >>],
     [cc |-> "at", bboxes |-> << <<4640, 950, 4900, 1720>> >>],
     [cc |-> "pl", bboxes |-> << <<4900, 1410, 5480, 2410>> >>],
     [cc |-> "cz", bboxes |-> << <<4860, 1210, 5110, 1910>> >>],
     [cc |-> "hu", bboxes |-> << <<4570, 1610, 4860, 2290>> >>],
     [cc |-> "ro", bboxes |-> << <<4360, 2030, 4830, 2970>> >>],
     [cc |-> "bg", bboxes |-> << <<4120, 2240, 4420, 2860>> >>],
     [cc |-> "gr", bboxes |-> << <<3480, 1960, 4170, 2830>> >>],
     [cc |-> "us", bboxes |-> << <<2450, -12500, 4950, -6690>> >>],
     [cc |-> "ca", bboxes |-> << <<4170, -14100, 8310, -5260>> >>],
     [cc |-> "au", bboxes |-> << <<-4400, 11290, -1070, 15360>> >>],
     [cc |-> "nz", bboxes |-> << <<-4730, 16630, -3440, 17870>> >>] >>

COUNTRY_BBOXES ==
  [i \in 1..Min(NumCountries, Len(AllCountryBboxes)) |->
     [cc |-> AllCountryBboxes[i].cc,
      bboxes |-> SubSeq(AllCountryBboxes[i].bboxes, 1,
                        Min(MaxBoxes, Len(AllCountryBboxes[i].bboxes)))]]

TableCodes == {COUNTRY_BBOXES[i].cc : i \in 1..Len(COUNTRY_BBOXES)}

(***************************************************************************)
(* Character-level string functions of the selector.                       *)
(***************************************************************************)
Lower(c) ==
  CASE c = "A" -> "a" [] c = "B" -> "b" [] c = "D" -> "d" [] c = "E" -> "e"
    [] c = "F" -> "f" [] c = "K" -> "k" [] c = "L" -> "l" [] c = "R" -> "r"
    [] c = "U" -> "u" [] c = "X" -> "x" [] OTHER -> c

IsSpace(c) == c \in {" ", "\t", "\n"}

\* str.lower()
StrLower(s) == [i \in 1..Len(s) |-> Lower(s[i])]

\* str.lstrip() with no argument
RECURSIVE LStrip(_)
LStrip(s) == IF s # <<>> /\ IsSpace(Head(s)) THEN LStrip(Tail(s)) ELSE s

\* str.rstrip() with no argument
RECURSIVE RStrip(_)
RStrip(s) ==
  IF s # <<>> /\ IsSpace(s[Len(s)]) THEN RStrip(SubSeq(s, 1, Len(s) - 1)) ELSE s

\* str.strip()
Strip(s) == RStrip(LStrip(s))

\* str.split(","): the fields between the commas, empty ones included
RECURSIVE SplitAcc(_, _, _)
SplitAcc(s, cur, acc) ==
  IF s = <<>> THEN Append(acc, cur)
  ELSE IF Head(s) = "," THEN SplitAcc(Tail(s), <<>>, Append(acc, cur))
  ELSE SplitAcc(Tail(s), Append(cur, Head(s)), acc)

SplitComma(s) == SplitAcc(s, <<>>, <<>>)

\* the characters of a sequence as one string
RECURSIVE JoinChars(_)
JoinChars(s) == IF s = <<>> THEN "" ELSE Head(s) \o JoinChars(Tail(s))

(***************************************************************************)
(* The environment: COUNTRIES unset (os.environ.get returns None) or a     *)
(* string.                                                                 *)
(***************************************************************************)
Unset == [some |-> FALSE, v |-> <<>>]
EnvStr(s) == [some |-> TRUE, v |-> s]

\* NormalizeEnv without the strip()
NormalizeEnvNoStrip(env) ==
  IF env.some /\ env.v # <<>> THEN EnvStr(StrLower(env.v)) ELSE env

\* lines 93-94: a non-empty value is stripped and lower-cased
NormalizeEnv(env) ==
  IF env.some /\ env.v # <<>> THEN EnvStr(StrLower(Strip(env.v))) ELSE env

\* line 100: the codes asked for
Wanted(s) ==
  LET parts == SplitComma(s)
  IN  {JoinChars(StrLower(Strip(parts[i]))) :
         i \in {j \in 1..Len(parts) : Strip(parts[j]) # <<>>}}

\* line 101: the table entries from the i-th on whose code is wanted
RECURSIVE SelectFrom(_, _)
SelectFrom(i, wanted) ==
  IF i > Len(COUNTRY_BBOXES) THEN <<>>
  ELSE IF COUNTRY_BBOXES[i].cc \in wanted THEN <<i>> \o SelectFrom(i + 1, wanted)
  ELSE SelectFrom(i + 1, wanted)

\* lines 92-101: the indices into COUNTRY_BBOXES of the selected entries, in
\* the table's order
SelectCountries(env) ==
  LET e == NormalizeEnv(env)
  IN  IF ~e.some \/ e.v = <<>> \/ e.v = <<"a", "l", "l">>
      THEN [i \in 1..Len(COUNTRY_BBOXES) |-> i]
      ELSE SelectFrom(1, Wanted(e.v))

(***************************************************************************)
(* JSON values.  A raw element of the service's answer: each of its keys   *)
(* may be absent; its tags are a set of <<key, value>> pairs.              *)
(***************************************************************************)
None == [some |-> FALSE, v |-> 0]
Some(x) == [some |-> TRUE, v |-> x]
NoTags == [some |-> FALSE, kv |-> {}]
Tags(kv) == [some |-> TRUE, kv |-> kv]
Element(id, lat, lon, tags) == [id |-> id, lat |-> lat, lon |-> lon, tags |-> tags]

\* dict.get(key) on a tag mapping: the value, or "" standing for None (no tag
\* value of the model is the empty string)
TagGet(kv, key) ==
  IF \E p \in kv : p[1] = key THEN (CHOOSE p \in kv : p[1] = key)[2] ELSE ""

\* str() of a value that may be None, as an f-string formats it
FormatOpt(o) == IF o.some THEN ToString(o.v) ELSE "None"

(***************************************************************************)
(* The normaliser, lines 120-134.                                          *)
(***************************************************************************)
\* Normalize testing only that the key "highway" is there
NormalizeTagPresent(node) ==
  LET fixed == \E p \in node.tags.kv : p[1] = "highway"
  IN  [id         |-> "osm-" \o FormatOpt(node.id),
       lat        |-> node.lat,
       lon        |-> node.lon,
       type       |-> IF fixed THEN "fixed_camera" ELSE "mobile_possible_camera",
       confidence |-> IF fixed THEN CONF_FIXED ELSE CONF_MOBILE_POSSIBLE]

Normalize(node) ==
  LET tags  == IF node.tags.some THEN node.tags.kv ELSE {}
      fixed == TagGet(tags, "highway") = "speed_camera"
  IN  [id         |-> "osm-" \o FormatOpt(node.id),
       lat        |-> node.lat,
       lon        |-> node.lon,
       type       |-> IF fixed THEN "fixed_camera" ELSE "mobile_possible_camera",
       confidence |-> IF fixed THEN CONF_FIXED ELSE CONF_MOBILE_POSSIBLE]

\* lines 119-135: the cameras of a list of elements, in order
NormalizeAll(elems) == [i \in 1..Len(elems) |-> Normalize(elems[i])]

(***************************************************************************)
(* Deduplication, line 138: a dict comprehension keyed by id.  A key keeps *)
(* the place of its first insertion and the value of its last.             *)
(***************************************************************************)
\* DictPut keeping the value of the first insertion
DictPutFirstWins(d, cam) ==
  IF \E i \in 1..Len(d) : d[i].id = cam.id THEN d ELSE Append(d, cam)

\* d[cam["id"]] = cam
DictPut(d, cam) ==
  IF \E i \in 1..Len(d) : d[i].id = cam.id
  THEN [i \in 1..Len(d) |-> IF d[i].id = cam.id THEN cam ELSE d[i]]
  ELSE Append(d, cam)

RECURSIVE DedupAcc(_, _)
DedupAcc(s, d) ==
  IF s = <<>> THEN d
  ELSE IF Head(s).id # "" THEN DedupAcc(Tail(s), DictPut(d, Head(s)))
  ELSE DedupAcc(Tail(s), d)

Dedup(s) == DedupAcc(s, <<>>)

(***************************************************************************)
(* The output file, lines 141-150.  A path is its directory and its base   *)
(* name.                                                                   *)
(***************************************************************************)
PathJoin(dir, base) == [dir |-> dir, base |-> base]
Basename(path) == path.base
PathStr(path) == path.dir \o "/" \o path.base

\* lines 142-145
OutputFile(cc) ==
  IF cc = "uk" THEN PathJoin(OUTPUT_DIR, "osm_cameras.json")
  ELSE PathJoin(OUTPUT_DIR, cc \o "_osm_cameras.json")

\* line 148
RefuseWrite(cc, file) == Basename(file) = "osm_cameras.json" /\ cc # "uk"

\* WriteTarget of a script that writes every country to the canonical file
WriteTargetCanonical(cc) ==
  [refused |-> FALSE, file |-> PathJoin(OUTPUT_DIR, "osm_cameras.json")]

\* lines 141-150: the file a country is written to, unless the write is refused
WriteTarget(cc) ==
  [refused |-> RefuseWrite(cc, OutputFile(cc)), file |-> OutputFile(cc)]

(***************************************************************************)
(* fetch_bbox's backoff, lines 72, 77 and 85.                              *)
(***************************************************************************)
\* NextBackoff without the cap
NextBackoffUncapped(b) == b * 2

NextBackoff(b) == Min(b * 2, BACKOFF_CAP)

(***************************************************************************)
(* What a request can bring back.  A response is a transport failure       *)
(* (requests.get raises a RequestException) or a status code with a body   *)
(* that parses as JSON or does not.  A parsed body is a JSON object: the   *)
(* set of its keys and the value of "elements".  NoData is Python's None.  *)
(***************************************************************************)
NoData == [isNone |-> TRUE, keys |-> {}, elements |-> <<>>]
Body(keys, elems) == [isNone |-> FALSE, keys |-> keys, elements |-> elems]

\* line 115, "not data": None and the empty object are falsy
Falsy(d) == d.isNone \/ d.keys = {}

\* line 119, data.get("elements", [])
ElementsOf(d) == IF "elements" \in d.keys THEN d.elements ELSE <<>>

ElemFixed  == Element(Some(100), Some(5150), Some(-12), Tags({<<"highway", "speed_camera">>}))
ElemMobile == Element(Some(100), None, Some(-12), Tags({<<"radar", "yes">>}))
ElemBare   == Element(Some(101), Some(4885), Some(235), NoTags)

Bodies ==
  { Body({}, <<>>),
    Body({"remark"}, <<>>),
    Body({"elements"}, <<>>),
    Body({"elements"}, <<ElemFixed>>),
    Body({"elements"}, <<ElemMobile>>),
    Body({"elements"}, <<ElemBare>>),
    Body({"elements"}, <<ElemFixed, ElemMobile>>) }

TransportFailure == [transport |-> TRUE, status |-> 0, parses |-> FALSE, body |-> NoData]
HttpError(status) == [transport |-> FALSE, status |-> status, parses |-> FALSE, body |-> NoData]
HttpJson(status, body) == [transport |-> FALSE, status |-> status, parses |-> TRUE, body |-> body]

Responses ==
  {TransportFailure}
    \cup {HttpError(st) : st \in {200, 300, 404, 429, 503}}
    \cup {HttpJson(st, b) : st \in {200, 300}, b \in Bodies}

\* Response.raise_for_status(): an HTTPError for a 4xx or 5xx status
RaisesForStatus(status) == 400 <= status /\ status < 600

(***************************************************************************)
(* State.                                                                  *)
(*   env             the COUNTRIES environment variable                    *)
(*   pc              where main() is                                       *)
(*   country_bboxes  the selected entries (indices into COUNTRY_BBOXES)    *)
(*   ci, bi          the country and the bounding box the loops are at     *)
(*   all_results     the cameras accumulated for the country               *)
(*   attempt, backoff  fetch_bbox's loop variables                         *)
(*   data            what fetch_bbox returned                              *)
(* and, observing the run:                                                 *)
(*   inflight        HTTP requests sent and not yet answered               *)
(*   requests        requests sent by the current fetch_bbox call          *)
(*   totalRequests   requests sent by the run                              *)
(*   fetchCalls      calls of fetch_bbox made by the run                   *)
(*   sleeps          the backoff sleeps of the current fetch_bbox call     *)
(*   non2xx          whether every answer of the current call so far was a *)
(*                   transport failure or had a status outside 200..299    *)
(*   own             the raw elements the current country's boxes gave     *)
(*   failedBoxes     the current country's boxes whose fetch returned None *)
(*   written         the write the current iteration attempted             *)
(*   writes          every write attempted, in order                       *)
(***************************************************************************)
VARIABLES env, pc, country_bboxes, ci, bi, all_results, attempt, backoff, data,
          inflight, requests, totalRequests, fetchCalls, sleeps, non2xx,
          own, failedBoxes, written, writes

vars == <<env, pc, country_bboxes, ci, bi, all_results, attempt, backoff, data,
          inflight, requests, totalRequests, fetchCalls, sleeps, non2xx,
          own, failedBoxes, written, writes>>

selVars == <<env, country_bboxes>>
loopVars == <<ci, bi>>
fetchVars == <<attempt, backoff, requests, sleeps, non2xx>>
countryObs == <<own, failedBoxes>>
writeObs == <<written, writes>>

NoWrite == [done |-> FALSE, cc |-> "", file |-> PathJoin("", ""), content |-> <<>>, ok |-> FALSE]

CurEntry == COUNTRY_BBOXES[country_bboxes[ci]]

InitWith(e) ==
  /\ env = e
  /\ pc = "start"
  /\ country_bboxes = <<>>
  /\ ci = 0 /\ bi = 0
  /\ all_results = <<>>
  /\ attempt = 0 /\ backoff = 0
  /\ data = NoData
  /\ inflight = 0 /\ requests = 0 /\ totalRequests = 0 /\ fetchCalls = 0
  /\ sleeps = <<>>
  /\ non2xx = TRUE
  /\ own = <<>> /\ failedBoxes = 0
  /\ written = NoWrite
  /\ writes = <<>>

\* lines 92-107: select; with nothing selected main returns
Start ==
  /\ pc = "start"
  /\ country_bboxes' = SelectCountries(env)
  /\ IF country_bboxes' = <<>>
     THEN pc' = "done" /\ ci' = 0
     ELSE pc' = "country" /\ ci' = 1
  /\ UNCHANGED <<env, bi, all_results, data, inflight, totalRequests, fetchCalls>>
  /\ UNCHANGED <<fetchVars, countryObs, writeObs>>

\* NextCountry with the result list created once, before the loop
NextCountryKeepResults ==
  /\ pc = "country"
  /\ IF ci > Len(country_bboxes)
     THEN /\ pc' = "done"
          /\ UNCHANGED <<bi, all_results, own, failedBoxes, written>>
     ELSE /\ pc' = "bbox"
          /\ bi' = 1
          /\ UNCHANGED all_results
          /\ own' = <<>>
          /\ failedBoxes' = 0
          /\ written' = NoWrite
  /\ UNCHANGED <<selVars, ci, data, inflight, totalRequests, fetchCalls, writes>>
  /\ UNCHANGED fetchVars

\* lines 107-109: the next country, with an empty result list; or the end
NextCountry ==
  /\ pc = "country"
  /\ IF ci > Len(country_bboxes)
     THEN /\ pc' = "done"
          /\ UNCHANGED <<bi, all_results, own, failedBoxes, written>>
     ELSE /\ pc' = "bbox"
          /\ bi' = 1
          /\ all_results' = <<>>
          /\ own' = <<>>
          /\ failedBoxes' = 0
          /\ written' = NoWrite
  /\ UNCHANGED <<selVars, ci, data, inflight, totalRequests, fetchCalls, writes>>
  /\ UNCHANGED fetchVars

\* lines 111-112 and 63-65: the next bounding box and the call of fetch_bbox
\* for it; or, after the last, on to the write
NextBbox ==
  /\ pc = "bbox"
  /\ IF bi > Len(CurEntry.bboxes)
     THEN /\ pc' = "write"
          /\ UNCHANGED <<fetchVars, fetchCalls>>
     ELSE /\ pc' = "request"
          /\ attempt' = 1
          /\ backoff' = INITIAL_BACKOFF
          /\ requests' = 0
          /\ sleeps' = <<>>
          /\ non2xx' = TRUE
          /\ fetchCalls' = fetchCalls + 1
  /\ UNCHANGED <<selVars, loopVars, all_results, data, inflight, totalRequests>>
  /\ UNCHANGED <<countryObs, writeObs>>

\* line 68: the request goes out
SendRequest ==
  /\ pc = "request"
  /\ pc' = "response"
  /\ inflight' = inflight + 1
  /\ requests' = requests + 1
  /\ totalRequests' = totalRequests + 1
  /\ UNCHANGED <<selVars, loopVars, all_results, attempt, backoff, data, sleeps, non2xx>>
  /\ UNCHANGED <<fetchCalls, countryObs, writeObs>>

\* fetch_bbox returns v
Return(v) == pc' = "returned" /\ data' = v /\ UNCHANGED attempt

\* the for loop of line 65 goes round; after the last attempt, line 89
LoopOn ==
  IF attempt < ATTEMPTS
  THEN pc' = "request" /\ attempt' = attempt + 1 /\ UNCHANGED data
  ELSE Return(NoData)

\* lines 70-73 and 75-78: sleep, double the backoff, continue
BackOffAndContinue ==
  /\ sleeps' = Append(sleeps, backoff)
  /\ backoff' = NextBackoff(backoff)
  /\ LoopOn

\* lines 81-88: a RequestException; sleep and retry unless this was the last
\* attempt
OnRequestException ==
  IF attempt < ATTEMPTS
  THEN /\ sleeps' = Append(sleeps, backoff)
       /\ backoff' = NextBackoff(backoff)
       /\ LoopOn
  ELSE /\ Return(NoData)
       /\ UNCHANGED <<sleeps, backoff>>

\* Receive with a 429 retried without counting as an attempt
Receive429NotCounted(resp) ==
  /\ pc = "response"
  /\ inflight' = inflight - 1
  /\ non2xx' = (non2xx /\ (resp.transport \/ resp.status < 200 \/ resp.status > 299))
  /\ IF resp.transport THEN OnRequestException
     ELSE IF resp.status = 429
       THEN /\ sleeps' = Append(sleeps, backoff)
            /\ backoff' = NextBackoff(backoff)
            /\ pc' = "request"
            /\ UNCHANGED <<attempt, data>>
     ELSE IF resp.status >= 500 THEN BackOffAndContinue
     ELSE IF RaisesForStatus(resp.status) THEN OnRequestException
     ELSE IF ~resp.parses THEN OnRequestException
     ELSE Return(resp.body) /\ UNCHANGED <<sleeps, backoff>>
  /\ UNCHANGED <<selVars, loopVars, all_results, requests, totalRequests>>
  /\ UNCHANGED <<fetchCalls, countryObs, writeObs>>

\* lines 68-88: the answer to the request arrives
Receive(resp) ==
  /\ pc = "response"
  /\ inflight' = inflight - 1
  /\ non2xx' = (non2xx /\ (resp.transport \/ resp.status < 200 \/ resp.status > 299))
  /\ IF resp.transport THEN OnRequestException
     ELSE IF resp.status = 429 THEN BackOffAndContinue
     ELSE IF resp.status >= 500 THEN BackOffAndContinue
     ELSE IF RaisesForStatus(resp.status) THEN OnRequestException
     ELSE IF ~resp.parses THEN OnRequestException
     ELSE Return(resp.body) /\ UNCHANGED <<sleeps, backoff>>
  /\ UNCHANGED <<selVars, loopVars, all_results, requests, totalRequests>>
  /\ UNCHANGED <<fetchCalls, countryObs, writeObs>>

\* lines 113-135: after the pause, skip a box without data, else normalise its
\* elements and append them
Process ==
  /\ pc = "returned"
  /\ pc' = "bbox"
  /\ bi' = bi + 1
  /\ IF Falsy(data)
     THEN UNCHANGED <<all_results, own>>
     ELSE /\ all_results' = all_results \o NormalizeAll(ElementsOf(data))
          /\ own' = own \o ElementsOf(data)
  /\ failedBoxes' = IF data.isNone THEN failedBoxes + 1 ELSE failedBoxes
  /\ UNCHANGED <<selVars, ci, data, inflight, totalRequests, fetchCalls>>
  /\ UNCHANGED <<fetchVars, writeObs>>

\* WriteCountry with the write skipped for an empty result list
WriteCountrySkipEmpty(ok) ==
  /\ pc = "write"
  /\ pc' = "country"
  /\ ci' = ci + 1
  /\ LET target == WriteTarget(CurEntry.cc)
         w == [done |-> TRUE, cc |-> CurEntry.cc, file |-> target.file,
               content |-> Dedup(all_results), ok |-> ok]
     IN  IF target.refused \/ w.content = <<>>
         THEN UNCHANGED writeObs
         ELSE written' = w /\ writes' = Append(writes, [cc |-> w.cc, file |-> w.file, ok |-> ok])
  /\ UNCHANGED <<selVars, bi, all_results, data, inflight, totalRequests, fetchCalls>>
  /\ UNCHANGED <<fetchVars, countryObs>>

\* WriteCountry with the error of a write left uncaught
WriteCountryUncaught(ok) ==
  /\ pc = "write"
  /\ pc' = IF ok THEN "country" ELSE "crashed"
  /\ ci' = ci + 1
  /\ LET target == WriteTarget(CurEntry.cc)
         w == [done |-> TRUE, cc |-> CurEntry.cc, file |-> target.file,
               content |-> Dedup(all_results), ok |-> ok]
     IN  IF target.refused
         THEN UNCHANGED writeObs
         ELSE written' = w /\ writes' = Append(writes, [cc |-> w.cc, file |-> w.file, ok |-> ok])
  /\ UNCHANGED <<selVars, bi, all_results, data, inflight, totalRequests, fetchCalls>>
  /\ UNCHANGED <<fetchVars, countryObs>>

\* lines 137-158: deduplicate, choose the file, write it unless refused; an
\* error of the write is caught
WriteCountry(ok) ==
  /\ pc = "write"
  /\ pc' = "country"
  /\ ci' = ci + 1
  /\ LET target == WriteTarget(CurEntry.cc)
         w == [done |-> TRUE, cc |-> CurEntry.cc, file |-> target.file,
               content |-> Dedup(all_results), ok |-> ok]
     IN  IF target.refused
         THEN UNCHANGED writeObs
         ELSE written' = w /\ writes' = Append(writes, [cc |-> w.cc, file |-> w.file, ok |-> ok])
  /\ UNCHANGED <<selVars, bi, all_results, data, inflight, totalRequests, fetchCalls>>
  /\ UNCHANGED <<fetchVars, countryObs>>

(***************************************************************************)
(* The run of main() against a service and a file system that may answer   *)
(* anything.                                                               *)
(***************************************************************************)
Envs ==
  { Unset,
    EnvStr(<<>>),
    EnvStr(<<"F", "R">>),
    EnvStr(<<"x", "x">>) }

Init == \E e \in Envs : InitWith(e)

Next ==
  \/ Start
  \/ NextCountry
  \/ NextBbox
  \/ SendRequest
  \/ \E resp \in Responses : Receive(resp)
  \/ Process
  \/ \E ok \in BOOLEAN : WriteCountry(ok)

Spec == Init /\ [][Next]_vars

(***************************************************************************)
(* The selector over generated COUNTRIES values, against a service that    *)
(* answers every request with an empty list and a file system that takes   *)
(* every write.                                                            *)
(***************************************************************************)
Pieces ==
  { <<"u", "k">>, <<"F", "r">>, <<"d", "e">>, <<"x", "x">>,
    <<"a", "l", "l">>, <<"A", "L", "L">>, <<",">>, <<" ">> }

RECURSIVE StringsOf(_)
StringsOf(n) ==
  IF n = 0 THEN {<<>>}
  ELSE StringsOf(n - 1) \cup {p \o t : p \in Pieces, t \in StringsOf(n - 1)}

SelEnvs == {Unset} \cup {EnvStr(t) : t \in StringsOf(MaxPieces)}

QuietResponse == HttpJson(200, Body({"elements"}, <<>>))

InitSel == \E e \in SelEnvs : InitWith(e)

NextSel ==
  \/ Start
  \/ NextCountry
  \/ NextBbox
  \/ SendRequest
  \/ Receive(QuietResponse)
  \/ Process
  \/ WriteCountry(TRUE)

SpecSel == InitSel /\ [][NextSel]_vars

(***************************************************************************)
(* The normaliser over generated elements: the run for one single-box      *)
(* country against a service that answers with one element of any shape.   *)
(***************************************************************************)
TagSets ==
  { {},
    {<<"highway", "speed_camera">>},
    {<<"highway", "speed_camera">>, <<"radar", "yes">>},
    {<<"highway", "speed_camera">>, <<"camera:type", "mobile">>},
    {<<"radar", "yes">>},
    {<<"camera:type", "mobile">>},
    {<<"highway", "residential">>},
    {<<"highway", "residential">>, <<"radar", "yes">>} }

AnyElements ==
  { Element(id, lat, lon, tags) :
      id \in {Some(100), Some(7), None},
      lat \in {Some(5150), None},
      lon \in {Some(-12), None},
      tags \in {NoTags} \cup {Tags(kv) : kv \in TagSets} }

ElementResponses == {HttpJson(200, Body({"elements"}, <<e>>)) : e \in AnyElements}

InitNorm == InitWith(EnvStr(<<"f", "r">>))

NextNorm ==
  \/ Start
  \/ NextCountry
  \/ NextBbox
  \/ SendRequest
  \/ \E resp \in ElementResponses : Receive(resp)
  \/ Process
  \/ WriteCountry(TRUE)

SpecNorm == InitNorm /\ [][NextNorm]_vars

(***************************************************************************)
(* Helpers of the properties.                                              *)
(***************************************************************************)
RECURSIVE BoxesOf(_)
BoxesOf(sel) ==
  IF sel = <<>> THEN 0 ELSE Len(COUNTRY_BBOXES[Head(sel)].bboxes) + BoxesOf(Tail(sel))

\* countries whose iteration has ended
Completed ==
  CASE pc \in {"start"} -> 0
    [] pc \in {"country", "done"} -> IF country_bboxes = <<>> THEN 0 ELSE ci - 1
    [] OTHER -> ci - 1

\* the file name the interface gives a country
ExpectedFileName(cc) ==
  IF cc = "uk" THEN "docs/osm_cameras.json" ELSE "docs/" \o cc \o "_osm_cameras.json"

\* C1: a write to docs/osm_cameras.json is only ever attempted while the
\* country being processed is "uk".
C1_CanonicalOnlyForUk ==
  /\ \A i \in 1..Len(writes) :
       PathStr(writes[i].file) = "docs/osm_cameras.json" => writes[i].cc = "uk"
  /\ written.done /\ PathStr(written.file) = "docs/osm_cameras.json" => written.cc = "uk"

C1_Witness ==
  /\ Len(writes) = 2
  /\ writes[1].cc = "uk" /\ PathStr(writes[1].file) = "docs/osm_cameras.json"
  /\ writes[2].cc = "fr" /\ PathStr(writes[2].file) # "docs/osm_cameras.json"

\* C2: every selected country gets exactly one write attempt, in the order of
\* the selection, once all of its bounding boxes have been fetched, to
\* docs/osm_cameras.json for "uk" and docs/<cc>_osm_cameras.json otherwise;
\* when every fetch of the country returned no data the write is still
\* attempted and its content is the empty result list.
C2_OneWritePerCountry ==
  /\ Len(writes) = Completed
  /\ \A k \in 1..Len(writes) :
       /\ writes[k].cc = COUNTRY_BBOXES[country_bboxes[k]].cc
       /\ PathStr(writes[k].file) = ExpectedFileName(writes[k].cc)
  /\ fetchCalls >= BoxesOf(SubSeq(country_bboxes, 1, Len(writes)))
  /\ written.done =>
       /\ written.cc = writes[Len(writes)].cc
       /\ written.file = writes[Len(writes)].file
       /\ fetchCalls = BoxesOf(SubSeq(country_bboxes, 1, Len(writes)))
       /\ bi = Len(COUNTRY_BBOXES[country_bboxes[Len(writes)]].bboxes) + 1
       /\ (failedBoxes = bi - 1 => written.content = <<>>)

C2_Witness ==
  /\ written.done
  /\ written.cc = "uk"
  /\ failedBoxes = Len(COUNTRY_BBOXES[1].bboxes)
  /\ written.content = <<>>
  /\ PathStr(written.file) = "docs/osm_cameras.json"

\* C3: no failure ends the run early.  The run never stops on an error;
\* until it is done it always has a next step; and when it is done with a
\* non-empty selection, fetch_bbox has been called for every bounding box
\* and a write attempted for every selected country, whatever fetches
\* failed, fields were missing or writes raised.
C3_FailuresDoNotStopTheRun ==
  /\ pc # "crashed"
  /\ pc # "done" => ENABLED Next
  /\ pc = "done" =>
       /\ fetchCalls = BoxesOf(country_bboxes)
       /\ Len(writes) = Len(country_bboxes)
       /\ \A k \in 1..Len(country_bboxes) :
            writes[k].cc = COUNTRY_BBOXES[country_bboxes[k]].cc

C3_Witness ==
  /\ pc = "done"
  /\ Len(writes) = 2
  /\ ~writes[1].ok
  /\ failedBoxes = 1
  /\ written.done /\ written.cc = "fr"

\* C4: within one call of fetch_bbox the backoff sleeps start at the initial
\* backoff, each is min(2 * previous, 300), they never decrease and never
\* exceed 300 seconds, and at most 8 requests are sent.
C4_BackoffAndAttemptCap ==
  /\ requests <= 8
  /\ sleeps # <<>> => sleeps[1] = 5
  /\ \A i \in 1..Len(sleeps) : sleeps[i] <= 300
  /\ \A i \in 1..(Len(sleeps) - 1) :
       /\ sleeps[i + 1] = Min(2 * sleeps[i], 300)
       /\ sleeps[i + 1] >= sleeps[i]

C4_Witness ==
  /\ Len(sleeps) = 8
  /\ requests = 8
  /\ sleeps[6] = 160 /\ sleeps[7] = 300 /\ sleeps[8] = 300

\* C5 (as claimed): fetch_bbox never ends in an exception; when all 8
\* attempts were answered by transport failures or by statuses outside
\* 200..299 it returns None, and None only after the last attempt; and a
\* call that returns data has slept once per earlier request and not after
\* the request that succeeded.
C5_FailureIsAValue ==
  /\ pc # "crashed"
  /\ pc = "returned" =>
       /\ (requests = ATTEMPTS /\ non2xx => data.isNone)
       /\ (data.isNone => requests = ATTEMPTS)
       /\ (~data.isNone => Len(sleeps) = requests - 1)

\* C6: the written list holds exactly one entry per identifier occurring in
\* the country's accumulated records, and that entry is the last
\* accumulated record with that identifier.
C6_DedupLastWins ==
  written.done =>
    LET ids == {all_results[i].id : i \in 1..Len(all_results)}
        LastOf(id) ==
          all_results[CHOOSE i \in 1..Len(all_results) :
                        /\ all_results[i].id = id
                        /\ \A j \in (i + 1)..Len(all_results) : all_results[j].id # id]
        out == written.content
    IN  /\ {out[j].id : j \in 1..Len(out)} = ids
        /\ Len(out) = Cardinality(ids)
        /\ \A j \in 1..Len(out) : out[j] = LastOf(out[j].id)

C6_Witness ==
  /\ written.done
  /\ Len(all_results) = 3
  /\ all_results[1].id = "osm-101"
  /\ all_results[2].id = "osm-100" /\ all_results[2].type = "fixed_camera"
  /\ all_results[3].id = "osm-100" /\ all_results[3].type = "mobile_possible_camera"
  /\ written.content = <<all_results[1], all_results[3]>>

(***************************************************************************)
(* The COUNTRIES value read as a list: a field is a maximal stretch        *)
(* without a comma; a code is listed when a field, trimmed and in lower    *)
(* case, spells it.                                                        *)
(***************************************************************************)
IsField(s, a, b) ==
  /\ 1 <= a /\ a <= b /\ b <= Len(s)
  /\ \A k \in a..b : s[k] # ","
  /\ a = 1 \/ s[a - 1] = ","
  /\ b = Len(s) \/ s[b + 1] = ","

Listed(s, cc) ==
  \E a \in 1..Len(s), b \in 1..Len(s) :
    IsField(s, a, b) /\ JoinChars(StrLower(Strip(SubSeq(s, a, b)))) = cc

WholeTable == [i \in 1..Len(COUNTRY_BBOXES) |-> i]

\* sel lists, in the table's order and once each, the entries satisfying P
Selects(sel, P(_)) ==
  /\ \A i \in 1..Len(sel), j \in 1..Len(sel) : i < j => sel[i] < sel[j]
  /\ {sel[i] : i \in 1..Len(sel)} = {k \in 1..Len(COUNTRY_BBOXES) : P(k)}

NothingDone == pc = "done" /\ totalRequests = 0 /\ fetchCalls = 0 /\ writes = <<>>

\* C7 (as claimed): the whole table is selected when COUNTRIES is absent,
\* empty or "all" in any letter case; any other value selects exactly the
\* listed table entries; an empty selection ends the run with no request and
\* no write.
C7_SelectorAsClaimed ==
  pc # "start" =>
    LET IsListed(k) == Listed(env.v, COUNTRY_BBOXES[k].cc)
    IN  /\ IF ~env.some \/ env.v = <<>> \/ StrLower(env.v) = <<"a", "l", "l">>
           THEN country_bboxes = WholeTable
           ELSE Selects(country_bboxes, IsListed)
        /\ country_bboxes = <<>> => NothingDone

\* C7 (amended): the whole table is selected when COUNTRIES is absent, or is
\* empty or "all" in any letter case once surrounding whitespace is
\* stripped; any other value selects exactly the listed table entries; an
\* empty selection ends the run with no request and no write.
C7_SelectorStripped ==
  pc # "start" =>
    LET IsListed(k) == Listed(env.v, COUNTRY_BBOXES[k].cc)
    IN  /\ IF \/ ~env.some
              \/ Strip(env.v) = <<>>
              \/ StrLower(Strip(env.v)) = <<"a", "l", "l">>
           THEN country_bboxes = WholeTable
           ELSE Selects(country_bboxes, IsListed)
        /\ country_bboxes = <<>> => NothingDone

C7_Witness ==
  /\ pc = "done"
  /\ env.some /\ env.v # <<>> /\ StrLower(env.v) # <<"a", "l", "l">>
  /\ StrLower(Strip(env.v)) = <<"a", "l", "l">>
  /\ country_bboxes = WholeTable
  /\ Len(writes) = Len(COUNTRY_BBOXES)

\* C8: an element's camera is fixed_camera with confidence 80 exactly when
\* the element's tags hold highway=speed_camera, and mobile_possible_camera
\* with confidence 60 otherwise (an element without tags included); its
\* identifier is "osm-" followed by the raw identifier; latitude and
\* longitude are the element's, null when the element has none.
C8_Normalizer ==
  /\ Len(all_results) = Len(own)
  /\ \A i \in 1..Len(own) :
       LET e == own[i]
           c == all_results[i]
           speedCamera == e.tags.some /\ <<"highway", "speed_camera">> \in e.tags.kv
       IN  /\ speedCamera => c.type = "fixed_camera" /\ c.confidence = 80
           /\ ~speedCamera => c.type = "mobile_possible_camera" /\ c.confidence = 60
           /\ e.id.some => c.id = "osm-" \o ToString(e.id.v)
           /\ c.lat = e.lat
           /\ c.lon = e.lon

C8_Witness ==
  /\ Len(own) = 1
  /\ own[1].tags = Tags({<<"highway", "residential">>, <<"radar", "yes">>})
  /\ own[1].id = Some(7)
  /\ ~own[1].lat.some
  /\ all_results[1].id = "osm-7"
  /\ all_results[1].type = "mobile_possible_camera"
  /\ all_results[1].lat = None

\* C9: no state is carried across bounding boxes or countries.  Every call
\* of fetch_bbox starts at attempt 1 with a backoff of 5 seconds; every
\* country starts with an empty result list; what is written for a country
\* is made of the records its own bounding boxes returned, all of them, and
\* a bounding box whose fetch failed adds none.
C9_NoCarriedState ==
  /\ pc = "request" /\ requests = 0 => attempt = 1 /\ backoff = 5
  /\ pc = "bbox" /\ bi = 1 => all_results = <<>>
  /\ pc = "returned" /\ data.isNone => Len(all_results) = Len(own)
  /\ written.done =>
       /\ \A j \in 1..Len(written.content) :
            \E i \in 1..Len(own) : written.content[j] = Normalize(own[i])
       /\ \A i \in 1..Len(own) :
            \E j \in 1..Len(written.content) :
              written.content[j].id = Normalize(own[i]).id

C9_Witness ==
  /\ written.done
  /\ written.cc = "fr"
  /\ Len(writes) = 2
  /\ own = <<ElemBare>>
  /\ written.content = <<Normalize(ElemBare)>>

\* C10: at most one request is in flight, and the run sends at most 8
\* requests per bounding box of the selected countries.
RequestBudget ==
  /\ inflight \in {0, 1}
  /\ totalRequests <= 8 * BoxesOf(country_bboxes)

\* C10: with every request and every sleep returning, every run of main
\* ends, having sent at most 8 requests per bounding box of the selected
\* countries with at most one in flight at a time.
C10_TerminatesWithinBudget == []RequestBudget /\ <>(pc = "done")

C10_Witness ==
  /\ pc = "done"
  /\ BoxesOf(country_bboxes) >= 3
  /\ totalRequests = 8 * BoxesOf(country_bboxes)

\* every request and every sleep returns: main always takes its next step
FairSpec == Spec /\ WF_vars(Next)

=============================================================================
